---- MODULE Spec2Model ----
(***************************************************************************)
(* A model of meshview's ingestion path: the MQTT reader                   *)
(* (meshview/mqtt_reader.py), the per-envelope store logic                 *)
(* (meshview/mqtt_store.py), the schema's keys (meshview/models.py) and    *)
(* the task structure of startdb.py (consumer loop, retention sweep,       *)
(* db_lock).                                                               *)
(*                                                                         *)
(* Strings the code parses or formats (node identity strings, gateway      *)
(* ids) are sequences of one-character strings, so that int(s, 16),        *)
(* re.fullmatch and the f"!{n:08x}" format are computed, not assumed.      *)
(***************************************************************************)
EXTENDS Integers, Sequences, FiniteSets, TLC

VARIABLES
    db,        \* the committed tables: [packet, seen, traceroute, node]
    now,       \* the wall clock, in days
    log,       \* the process_envelope calls made so far: <<[env, raised]>>
    sess,      \* per concurrent execution of process_envelope: its position and session
    wlock,     \* the connection holding SQLite's write lock (0: none)
    cpc,       \* load_database_from_mqtt: its position
    cenv,      \* the envelope the consumer loop holds
    kpc,       \* daily_cleanup_at: its position
    cutoff,    \* daily_cleanup_at: the cutoff of the sweep under way
    db_lock,   \* startdb.db_lock: its holder ("free", "consumer", "cleanup")
    faulted,   \* a storage fault was raised inside a unit of work
    handled,   \* envelopes whose process_envelope call returned or raised
    rpc,       \* get_topic_envelopes: its position
    subs,      \* topics subscribed on the current connection
    item,      \* the message being handled / the pair yielded
    delivered, \* the pairs yielded so far, in order
    errors,    \* transport errors so far, counted up to MaxErrors
    hist,      \* the stored history a Topology Builder request reads
    resp       \* the response of the last Topology Builder request

vars == <<db, now, log, sess, wlock, cpc, cenv, kpc, cutoff, db_lock, faulted, handled,
          rpc, subs, item, delivered, errors, hist, resp>>

storeVars == <<db, now, log>>
concVars == <<sess, wlock>>
taskVars == <<cpc, cenv, kpc, cutoff, db_lock, faulted, handled>>
readerVars == <<rpc, subs, item, delivered, errors>>
webVars == <<hist, resp>>

----------------------------------------------------------------------------
(* Bounds of the model. *)

\* process_envelope calls in one run of the sequential store specification
MaxCalls == 3
\* days the clock may advance
MaxTime == 2
\* envelopes the consumer loop handles in one run of the task specification
MaxHandled == 2
\* pairs get_topic_envelopes yields in one run of the reader specification
MaxYield == 2
\* transport errors the reader specification tells apart
MaxErrors == 2

----------------------------------------------------------------------------
(* Strings: hex parsing and formatting. *)

\* SQL NULL / Python None in an integer column
NULL == -1

LowerHex == <<"0", "1", "2", "3", "4", "5", "6", "7", "8", "9",
              "a", "b", "c", "d", "e", "f">>
UpperHex == <<"0", "1", "2", "3", "4", "5", "6", "7", "8", "9",
              "A", "B", "C", "D", "E", "F">>

\* re: the character class [0-9a-fA-F]
IsHexChar(c) == \E i \in 1..16 : LowerHex[i] = c \/ UpperHex[i] = c

DigitValue(c) == (CHOOSE i \in 1..16 : LowerHex[i] = c \/ UpperHex[i] = c) - 1

\* re.fullmatch(r"[0-9a-fA-F]+", s)
FullMatchHex(s) == Len(s) >= 1 /\ \A i \in 1..Len(s) : IsHexChar(s[i])

\* int(s, 16) for a string of hex digits
RECURSIVE HexToInt(_)
HexToInt(s) ==
    IF s = <<>> THEN 0
    ELSE HexToInt(SubSeq(s, 1, Len(s) - 1)) * 16 + DigitValue(s[Len(s)])

\* format(n, "x"): lowercase hex digits, no padding
RECURSIVE HexDigitsOf(_)
HexDigitsOf(n) ==
    IF n < 16 THEN <<LowerHex[n + 1]>>
    ELSE HexDigitsOf(n \div 16) \o <<LowerHex[(n % 16) + 1]>>

RECURSIVE ZeroPad(_, _)
ZeroPad(s, width) == IF Len(s) >= width THEN s ELSE ZeroPad(<<"0">> \o s, width)

\* the width of f"!{node_id:0{8}x}"
UserIdWidth == 8

\* f"!{node_id:0{8}x}"
DerivedUserId(node_id) == <<"!">> \o ZeroPad(HexDigitsOf(node_id), UserIdWidth)

----------------------------------------------------------------------------
(* Envelopes: what get_topic_envelopes hands to process_envelope. *)

\* getattr(env.packet, "from"): the one origin radio of the model, 0x0000000a
NodeA == 10

IdCanon == DerivedUserId(NodeA)
\* the same address written with an upper-case digit: "!0000000A"
IdUpper == <<"!", "0", "0", "0", "0", "0", "0", "0", "A">>
\* an identity string outside the "!<hex>" convention
IdName == <<"m", "e">>
UserIds == {IdCanon, IdUpper, IdName}

\* env.gateway_id: empty, or "!<8 lowercase hex digits>"
NoGateway == <<>>
GatewayB == <<"!", "0", "0", "0", "0", "0", "0", "0", "b">>
GatewayC == <<"!", "0", "0", "0", "0", "0", "0", "0", "c">>
Gateways == {NoGateway, GatewayB, GatewayC}

MsgIds == {0, 1, 2}
RxTimes == {1, 2}

Ports == {"TEXT_MESSAGE_APP", "POSITION_APP", "NODEINFO_APP",
          "TRACEROUTE_APP", "MAP_REPORT_APP"}

\* HardwareModel.values() and Config.DeviceConfig.Role.values(), cut to two codes
HardwareModelValues == {0, 1}
RoleValues == {0, 1}

Undecodable == [kind |-> "undecodable"]
TextPayloads == {[kind |-> "text"]}
RoutePayloads == {[kind |-> "route"]}
UserPayloads ==
    {[kind |-> "user", id |-> i, hw_model |-> 1, role |-> 0] : i \in UserIds}
    \cup {[kind |-> "user", id |-> IdCanon, hw_model |-> 1, role |-> 9]}
PositionPayloads ==
    {[kind |-> "position", latitude_i |-> 7, longitude_i |-> 7],
     [kind |-> "position", latitude_i |-> 0, longitude_i |-> 7]}
MapReportPayloads ==
    {[kind |-> "map_report", hw_model |-> 1, role |-> 0, firmware |-> 25,
      latitude_i |-> 5, longitude_i |-> 5]}

PayloadsOf(portnum) ==
    CASE portnum = "TEXT_MESSAGE_APP" -> TextPayloads
      [] portnum = "TRACEROUTE_APP" -> RoutePayloads
      [] portnum = "NODEINFO_APP" -> UserPayloads \cup {Undecodable}
      [] portnum = "POSITION_APP" -> PositionPayloads
      [] portnum = "MAP_REPORT_APP" -> MapReportPayloads \cup {Undecodable}

\* An envelope of port p, id i, gateway g, rx-time r.  Fields the code never
\* reads for an envelope take one value: want_response outside traceroute,
\* gateway and rx-time when the id is zero, rx-time when the gateway is empty.
EnvelopesOf(p) ==
    {[id |-> i, portnum |-> p, payload |-> pl, want_response |-> w,
      from |-> NodeA, gateway_id |-> g, rx_time |-> r] :
        i \in MsgIds, pl \in PayloadsOf(p), w \in BOOLEAN, g \in Gateways, r \in RxTimes}

WellFormed(e) ==
    /\ (e.portnum # "TRACEROUTE_APP" => ~e.want_response)
    /\ (e.id = 0 => e.gateway_id = GatewayB /\ e.rx_time = 1)
    /\ (e.gateway_id = NoGateway => e.rx_time = 1)
    /\ (e.id = 2 => e.portnum \in {"TEXT_MESSAGE_APP", "TRACEROUTE_APP"})

Envelopes == {e \in UNION {EnvelopesOf(p) : p \in Ports} : WellFormed(e)}

----------------------------------------------------------------------------
(* decode_payload *)

None == [kind |-> "None"]

DECODE_MAP == {"POSITION_APP", "NEIGHBORINFO_APP", "NODEINFO_APP", "TELEMETRY_APP",
               "TRACEROUTE_APP", "ROUTING_APP", "TEXT_MESSAGE_APP", "MAP_REPORT_APP"}

\* an exception leaving a call
Raise(exc) == [kind |-> "raise", exc |-> exc]

\* DECODE_MAP[portnum](payload): the protobuf parsers raise DecodeError on bytes
\* that do not parse, text_message raises UnicodeDecodeError on invalid UTF-8
FromString(portnum, payload) ==
    IF payload # Undecodable THEN payload
    ELSE IF portnum = "TEXT_MESSAGE_APP" THEN Raise("UnicodeDecodeError")
    ELSE Raise("DecodeError")

\* decode_payload with an except clause for DecodeError alone
decode_payload_ExceptDecodeError(portnum, payload) ==
    IF portnum \notin DECODE_MAP THEN None
    ELSE LET r == FromString(portnum, payload)
         IN IF r.kind = "raise" /\ r.exc \in {"DecodeError"} THEN None ELSE r

\* decode_payload(portnum, payload), lines 32-40; a result of kind "raise" is an
\* exception that leaves the call
decode_payload(portnum, payload) ==
    IF portnum \notin DECODE_MAP THEN None
    ELSE LET r == FromString(portnum, payload)
         IN IF r.kind = "raise" /\ r.exc \in {"DecodeError", "UnicodeDecodeError"}
            THEN None
            ELSE r

\* packet.payload of a stored Packet that MeshPacket.FromString rejects
Unparseable == [kind |-> "unparseable"]

\* the tuple (mesh_packet, payload) that decode returns
Pair(mesh_packet, payload) ==
    [kind |-> "tuple", mesh_packet |-> mesh_packet, payload |-> payload]

\* decode(packet), lines 43-53: packet.payload is the stored frame
decode(packet) ==
    IF packet.payload = Unparseable THEN Pair(None, None)
    ELSE LET mesh_packet == packet.payload
             payload == decode_payload(mesh_packet.portnum, mesh_packet.payload)
         IN IF payload.kind = "raise" THEN payload
            ELSE IF payload = None THEN Pair(mesh_packet, None)
            ELSE Pair(mesh_packet, payload)

----------------------------------------------------------------------------
(* The tables (meshview/models.py) and the statements the store issues. *)

EmptyDb == [packet |-> {}, seen |-> {}, traceroute |-> {}, node |-> {}]

\* the row of sqlite_insert(Packet).values(...); payload is the serialized packet
PacketRow(env, t) ==
    [id |-> env.id, portnum |-> env.portnum, from_node_id |-> env.from,
     payload |-> [payload |-> env.payload, want_response |-> env.want_response,
                  rx_time |-> env.rx_time],
     import_time |-> t]

\* select(Packet).where(Packet.id == id)
SelectPacket(tables, id) == {r \in tables.packet : r.id = id}

\* a plain INSERT into a table without the key
InsertPacketPlain(tables, row) == [tables EXCEPT !.packet = @ \cup {row}]

\* INSERT ... ON CONFLICT (id) DO NOTHING, Packet.id being the primary key
InsertPacketOrIgnore(tables, row) ==
    IF SelectPacket(tables, row.id) # {} THEN tables
    ELSE [tables EXCEPT !.packet = @ \cup {row}]

\* int(env.gateway_id[1:], 16)
GatewayNodeId(env) == HexToInt(Tail(env.gateway_id))

SeenRow(env, t) ==
    [packet_id |-> env.id, node_id |-> GatewayNodeId(env), rx_time |-> env.rx_time,
     import_time |-> t]

\* select(PacketSeen).where(packet_id ==, node_id ==, rx_time ==)
SelectSeen(tables, packet_id, node_id, rx_time) ==
    {r \in tables.seen :
        r.packet_id = packet_id /\ r.node_id = node_id /\ r.rx_time = rx_time}

SelectNodeById(tables, id) == {r \in tables.node : r.id = id}
SelectNodeByNodeId(tables, node_id) == {r \in tables.node : r.node_id = node_id}

\* the next autoincrement id of Traceroute
NextTracerouteId(tables) ==
    IF tables.traceroute = {} THEN 1
    ELSE 1 + (CHOOSE m \in {r.id : r \in tables.traceroute} :
                \A r \in tables.traceroute : r.id <= m)

\* One pending ORM change applied by a flush.  The result is [ok, tables]; ok is
\* FALSE when the statement violates a key of models.py (IntegrityError):
\* PacketSeen's primary key (packet_id, node_id, rx_time), Node's primary key id,
\* Node's UNIQUE node_id (NULLs never collide).
ApplyOp(tables, o) ==
    CASE o.op = "add_seen" ->
           IF SelectSeen(tables, o.row.packet_id, o.row.node_id, o.row.rx_time) # {}
           THEN [ok |-> FALSE, tables |-> tables]
           ELSE [ok |-> TRUE, tables |-> [tables EXCEPT !.seen = @ \cup {o.row}]]
      [] o.op = "add_node" ->
           IF \/ SelectNodeById(tables, o.row.id) # {}
              \/ (o.row.node_id # NULL /\ SelectNodeByNodeId(tables, o.row.node_id) # {})
           THEN [ok |-> FALSE, tables |-> tables]
           ELSE [ok |-> TRUE, tables |-> [tables EXCEPT !.node = @ \cup {o.row}]]
      [] o.op = "update_node" ->
           IF o.row.node_id # NULL
              /\ \E r \in tables.node : r.id # o.row.id /\ r.node_id = o.row.node_id
           THEN [ok |-> FALSE, tables |-> tables]
           ELSE [ok |-> TRUE,
                 tables |-> [tables EXCEPT
                     !.node = {r \in @ : r.id # o.row.id} \cup {o.row}]]
      [] o.op = "add_traceroute" ->
           [ok |-> TRUE,
            tables |-> [tables EXCEPT !.traceroute =
                @ \cup {[id |-> NextTracerouteId(tables)] @@ o.row}]]

\* session.flush(): the pending changes in order; the first failure fails it
RECURSIVE Flush(_, _)
Flush(tables, ops) ==
    IF ops = <<>> THEN [ok |-> TRUE, tables |-> tables]
    ELSE LET r == ApplyOp(tables, Head(ops))
         IN IF r.ok THEN Flush(r.tables, Tail(ops)) ELSE [ok |-> FALSE, tables |-> tables]

----------------------------------------------------------------------------
(* process_envelope (meshview/mqtt_store.py) *)

ValueError == <<"ValueError">>

\* HardwareModel.Name(code), Config.DeviceConfig.Role.Name(code)
HardwareModelName(code) ==
    IF code \in HardwareModelValues THEN <<"HardwareModel", code>> ELSE ValueError
RoleName(code) == IF code \in RoleValues THEN <<"Role", code>> ELSE ValueError

\* The map-report branch's try block (lines 25-75): the pending changes it leaves.
\* A payload that did not decode (map_report is None) and an enum code without a
\* name raise inside the try, before anything is changed.
MapReportOps(tables, env, t) ==
    LET node_id == env.from
        user_id == DerivedUserId(node_id)
        map_report == decode_payload("MAP_REPORT_APP", env.payload)
    IN IF map_report = None THEN <<>>
       ELSE LET hw_model == HardwareModelName(map_report.hw_model)
                role == RoleName(map_report.role)
                node == SelectNodeByNodeId(tables, node_id)
                fields == [node_id |-> node_id, hw_model |-> hw_model, role |-> role,
                           firmware |-> map_report.firmware,
                           last_lat |-> map_report.latitude_i,
                           last_long |-> map_report.longitude_i,
                           last_update |-> t]
            IN IF hw_model = ValueError \/ role = ValueError THEN <<>>
               ELSE IF node # {}
               THEN <<[op |-> "update_node",
                       row |-> [id |-> (CHOOSE r \in node : TRUE).id] @@ fields]>>
               ELSE <<[op |-> "add_node", row |-> [id |-> user_id] @@ fields]>>

\* The first session (lines 16-77): the try block, then the commit outside it.
\* [raised, tables]
MapReportBranch(tables, env, t) ==
    IF env.portnum # "MAP_REPORT_APP" THEN [raised |-> FALSE, tables |-> tables]
    ELSE LET f == Flush(tables, MapReportOps(tables, env, t))
         IN [raised |-> ~f.ok, tables |-> f.tables]

\* an admission that overwrites the stored row (INSERT OR REPLACE)
PacketAdmissionReplace(tables, env, t) ==
    [tables EXCEPT !.packet = {r \in @ : r.id # env.id} \cup {PacketRow(env, t)}]

\* lines 84-107
PacketAdmission(tables, env, t) ==
    IF SelectPacket(tables, env.id) # {} THEN tables
    ELSE InsertPacketOrIgnore(tables, PacketRow(env, t))

\* lines 118-141
SeenOps(tables, env, t) ==
    IF SelectSeen(tables, env.id, GatewayNodeId(env), env.rx_time) # {} THEN <<>>
    ELSE <<[op |-> "add_seen", row |-> SeenRow(env, t)]>>

\* lines 144-199: the try block of the node-info branch
NodeInfoOps(tables, env, t) ==
    IF env.portnum # "NODEINFO_APP" THEN <<>>
    ELSE LET user == decode_payload("NODEINFO_APP", env.payload)
         IN IF user = None THEN <<>>
            ELSE IF user.id = <<>> THEN <<>>
            ELSE LET node_id == IF user.id[1] = "!" /\ FullMatchHex(Tail(user.id))
                                THEN HexToInt(Tail(user.id)) ELSE NULL
                     hw_model == IF user.hw_model \in HardwareModelValues
                                 THEN HardwareModelName(user.hw_model)
                                 ELSE <<"unknown", user.hw_model>>
                     role == RoleName(user.role)
                     node == SelectNodeById(tables, user.id)
                 IN IF role = ValueError THEN <<>>
                    ELSE IF node # {}
                    THEN LET old == CHOOSE r \in node : TRUE
                         IN <<[op |-> "update_node",
                               row |-> [old EXCEPT !.node_id = node_id,
                                                   !.hw_model = hw_model,
                                                   !.role = role,
                                                   !.last_update = t]]>>
                    ELSE <<[op |-> "add_node",
                            row |-> [id |-> user.id, node_id |-> node_id,
                                     hw_model |-> hw_model, role |-> role,
                                     firmware |-> NULL, last_lat |-> NULL,
                                     last_long |-> NULL, last_update |-> t]]>>

\* lines 202-220
PositionOps(tables, env, t) ==
    IF env.portnum # "POSITION_APP" THEN <<>>
    ELSE LET position == decode_payload("POSITION_APP", env.payload)
         IN IF position = None THEN <<>>
            ELSE IF position.latitude_i = 0 \/ position.longitude_i = 0 THEN <<>>
            ELSE LET node == SelectNodeByNodeId(tables, env.from)
                 IN IF node = {} THEN <<>>
                    ELSE <<[op |-> "update_node",
                            row |-> [(CHOOSE r \in node : TRUE) EXCEPT
                                        !.last_lat = position.latitude_i,
                                        !.last_long = position.longitude_i,
                                        !.last_update = t]]>>

\* lines 223-237
TracerouteOps(env, t) ==
    IF env.portnum # "TRACEROUTE_APP" THEN <<>>
    ELSE <<[op |-> "add_traceroute",
            row |-> [packet_id |-> env.id, done |-> ~env.want_response,
                     gateway_node_id |-> GatewayNodeId(env), import_time |-> t]]>>

\* The second session (lines 82-239), [raised, tables].  Leaving the session
\* without commit (the return of line 114, an exception) rolls it back.  fault:
\* the storage fails at the commit.
UnitOfWork(tables, env, t, fault) ==
    LET tx == PacketAdmission(tables, env, t)
    IN IF env.gateway_id = NoGateway THEN [raised |-> FALSE, tables |-> tables]
       ELSE LET ops == SeenOps(tx, env, t) \o NodeInfoOps(tx, env, t)
                       \o PositionOps(tx, env, t) \o TracerouteOps(env, t)
                f == Flush(tx, ops)
            IN IF fault \/ ~f.ok THEN [raised |-> TRUE, tables |-> tables]
               ELSE [raised |-> FALSE, tables |-> f.tables]

\* process_envelope without the return of lines 79-80
process_envelope_NoIdCheck(tables, env, t, fault) ==
    LET m == MapReportBranch(tables, env, t)
    IN IF m.raised THEN m ELSE UnitOfWork(m.tables, env, t, fault)

\* process_envelope(topic, env), one call run to its end: [raised, tables]
process_envelope(tables, env, t, fault) ==
    LET m == MapReportBranch(tables, env, t)
    IN IF m.raised THEN m
       ELSE IF env.id = 0 THEN m
       ELSE UnitOfWork(m.tables, env, t, fault)

----------------------------------------------------------------------------
(* The store, fed one envelope at a time (as under db_lock). *)

NoEnvelope == [id |-> NULL]
NoItem == [kind |-> "none"]
NoHistory == [traceroutes |-> <<>>, neighborinfo |-> <<>>, sightings |-> <<>>, active |-> {}]
NoResponse == [view |-> "none"]

IdleSessions == [p \in {1, 2} |-> [pc |-> "idle"]]

InitStore == db = EmptyDb /\ now = 0 /\ log = <<>>
InitConc == sess = IdleSessions /\ wlock = 0
InitTasks ==
    /\ cpc = "off" /\ cenv = NoEnvelope /\ kpc = "off" /\ cutoff = 0
    /\ db_lock = "free"
    /\ faulted = FALSE /\ handled = 0
InitReader == rpc = "off" /\ subs = <<>> /\ item = NoItem /\ delivered = <<>> /\ errors = 0
InitWeb == hist = NoHistory /\ resp = NoResponse

Init == InitStore /\ InitConc /\ InitTasks /\ InitReader /\ InitWeb

\* await mqtt_store.process_envelope(topic, env), run to its end
ProcessEnvelope(env) ==
    /\ Len(log) < MaxCalls
    /\ LET r == process_envelope(db, env, now, FALSE)
       IN /\ db' = r.tables
          /\ log' = Append(log, [env |-> env, raised |-> r.raised])
    /\ UNCHANGED <<now, concVars, taskVars, readerVars, webVars>>

Next == \E env \in Envelopes : ProcessEnvelope(env)

Spec == Init /\ [][Next]_vars

----------------------------------------------------------------------------
(* Two executions of process_envelope interleaved at their awaits, each on its  *)
(* own session.  SQLite admits one writing connection: the write lock is taken  *)
(* by a connection's first INSERT/UPDATE and held to its commit or rollback,    *)
(* and a statement of another connection that has to write waits.  A session    *)
(* holding the lock reads its own uncommitted rows (tx); the others read db.    *)

MaxConcCalls == 3

ConcEnvelopes ==
    {e \in Envelopes :
        /\ e.id # 0 /\ e.rx_time = 1 /\ ~e.want_response
        /\ e.gateway_id \in {GatewayB, NoGateway}
        /\ e.payload \in TextPayloads \cup RoutePayloads
              \cup {u \in UserPayloads : u.id \in {IdCanon, IdUpper} /\ u.role = 0}
              \cup MapReportPayloads}

Sessions == {1, 2}

View(p) == IF wlock = p THEN sess[p].tx ELSE db
CanWrite(p) == wlock \in {0, p}
Active == {q \in Sessions : sess[q].pc # "idle"}

\* where a call continues after the map-report branch (lines 79-82)
AfterMapReport(env) == IF env.id = 0 THEN "return" ELSE "select_packet"
\* where it continues after the Packet admission (lines 111-116)
AfterAdmission(env) == IF env.gateway_id = NoGateway THEN "return" ELSE "select_seen"

\* the enrichment branch issues a select(Node): lines 166-168 and 208-210
IssuesNodeSelect(env) ==
    \/ /\ env.portnum = "NODEINFO_APP"
       /\ LET user == decode_payload("NODEINFO_APP", env.payload)
          IN user # None /\ user.id # <<>> /\ RoleName(user.role) # ValueError
    \/ /\ env.portnum = "POSITION_APP"
       /\ LET position == decode_payload("POSITION_APP", env.payload)
          IN position # None /\ position.latitude_i # 0 /\ position.longitude_i # 0

CBegin(p, env) ==
    /\ sess[p].pc = "idle"
    /\ Len(log) + Cardinality(Active) < MaxConcCalls
    /\ sess' = [sess EXCEPT ![p] =
                  [pc |-> IF env.portnum = "MAP_REPORT_APP" THEN "map_select"
                          ELSE AfterMapReport(env),
                   env |-> env, tx |-> EmptyDb, ops |-> <<>>, failed |-> FALSE]]
    /\ UNCHANGED <<db, now, log, wlock, taskVars, readerVars, webVars>>

\* line 37: select(Node).where(Node.node_id == node_id), and the rest of the try
CMapSelect(p) ==
    /\ sess[p].pc = "map_select"
    /\ sess' = [sess EXCEPT ![p].ops = MapReportOps(db, sess[p].env, now),
                            ![p].pc = "map_commit"]
    /\ UNCHANGED <<db, now, log, wlock, taskVars, readerVars, webVars>>

\* line 77: the commit of the map-report session
CMapCommit(p) ==
    /\ sess[p].pc = "map_commit"
    /\ IF sess[p].ops = <<>>
       THEN /\ sess' = [sess EXCEPT ![p].pc = AfterMapReport(sess[p].env)]
            /\ db' = db
       ELSE /\ wlock = 0
            /\ LET f == Flush(db, sess[p].ops)
               IN /\ db' = f.tables
                  /\ sess' = [sess EXCEPT ![p].ops = <<>>,
                                ![p].pc = IF f.ok THEN AfterMapReport(sess[p].env)
                                          ELSE "raise"]
    /\ UNCHANGED <<now, log, wlock, taskVars, readerVars, webVars>>

\* line 84: select(Packet).where(Packet.id == env.packet.id)
CSelectPacket(p) ==
    /\ sess[p].pc = "select_packet"
    /\ sess' = [sess EXCEPT ![p].pc =
                  IF SelectPacket(db, sess[p].env.id) # {}
                  THEN AfterAdmission(sess[p].env) ELSE "insert_packet"]
    /\ UNCHANGED <<db, now, log, wlock, taskVars, readerVars, webVars>>

\* line 107: the INSERT ... ON CONFLICT DO NOTHING; the return of line 114 leaves
\* the session without commit, which rolls the insert back
CInsertPacket(p) ==
    /\ sess[p].pc = "insert_packet"
    /\ wlock = 0
    /\ sess' = [sess EXCEPT
                  ![p].tx = InsertPacketOrIgnore(db, PacketRow(sess[p].env, now)),
                  ![p].pc = AfterAdmission(sess[p].env)]
    /\ wlock' = IF sess[p].env.gateway_id = NoGateway THEN 0 ELSE p
    /\ UNCHANGED <<db, now, log, taskVars, readerVars, webVars>>

\* lines 118-141, and the traceroute row of lines 223-237 when no select follows
CSelectSeen(p) ==
    /\ sess[p].pc = "select_seen"
    /\ LET env == sess[p].env
       IN sess' = [sess EXCEPT
                     ![p].ops = SeenOps(View(p), env, now)
                                \o (IF IssuesNodeSelect(env) THEN <<>>
                                    ELSE TracerouteOps(env, now)),
                     ![p].pc = IF IssuesNodeSelect(env) THEN "select_node" ELSE "commit"]
    /\ UNCHANGED <<db, now, log, wlock, taskVars, readerVars, webVars>>

\* lines 166-168 and 208-210: the select(Node) flushes the pending rows first
\* (autoflush).  A failed flush inside the node-info try is caught and leaves the
\* session unusable; in the position branch it propagates.
CSelectNode(p) ==
    /\ sess[p].pc = "select_node"
    /\ LET env == sess[p].env
           pending == sess[p].ops
           f == Flush(View(p), pending)
           enrich(t) == NodeInfoOps(t, env, now) \o PositionOps(t, env, now)
       IN IF pending = <<>>
          THEN /\ sess' = [sess EXCEPT ![p].ops = enrich(View(p)), ![p].pc = "commit"]
               /\ wlock' = wlock
          ELSE /\ CanWrite(p)
               /\ IF f.ok
                  THEN /\ sess' = [sess EXCEPT ![p].tx = f.tables,
                                     ![p].ops = enrich(f.tables), ![p].pc = "commit"]
                       /\ wlock' = p
                  ELSE /\ sess' = [sess EXCEPT ![p].ops = <<>>, ![p].failed = TRUE,
                                     ![p].pc = IF env.portnum = "NODEINFO_APP"
                                               THEN "commit" ELSE "raise"]
                       /\ wlock' = 0
    /\ UNCHANGED <<db, now, log, taskVars, readerVars, webVars>>

\* line 239: await session.commit()
CCommit(p) ==
    /\ sess[p].pc = "commit"
    /\ LET f == Flush(View(p), sess[p].ops)
       IN IF sess[p].failed
          THEN /\ sess' = [sess EXCEPT ![p].pc = "raise"]
               /\ UNCHANGED <<db, wlock>>
          ELSE /\ CanWrite(p)
               /\ db' = IF f.ok THEN f.tables ELSE db
               /\ wlock' = 0
               /\ sess' = [sess EXCEPT ![p].ops = <<>>,
                             ![p].pc = IF f.ok THEN "return" ELSE "raise"]
    /\ UNCHANGED <<now, log, taskVars, readerVars, webVars>>

\* the call returns, or raises to its caller
CReturn(p) ==
    /\ sess[p].pc \in {"return", "raise"}
    /\ log' = Append(log, [env |-> sess[p].env, raised |-> sess[p].pc = "raise"])
    /\ sess' = [sess EXCEPT ![p] = [pc |-> "idle"]]
    /\ UNCHANGED <<db, now, wlock, taskVars, readerVars, webVars>>

NextConc ==
    \E p \in Sessions :
        \/ \E env \in ConcEnvelopes : CBegin(p, env)
        \/ CMapSelect(p)
        \/ CMapCommit(p)
        \/ CSelectPacket(p)
        \/ CInsertPacket(p)
        \/ CSelectSeen(p)
        \/ CSelectNode(p)
        \/ CCommit(p)
        \/ CReturn(p)

ConcSpec == Init /\ [][NextConc]_vars

----------------------------------------------------------------------------
(* startdb.py: the task group of main(): load_database_from_mqtt and            *)
(* daily_cleanup_at, which share db_lock.                                       *)

\* days_to_keep, in days of the model's clock
days_to_keep == 1
\* cleanup.vacuum of the configuration
vacuum_db == TRUE

TaskEnvelopes ==
    {e \in ConcEnvelopes :
        e.gateway_id = GatewayB /\ e.portnum # "MAP_REPORT_APP"}

InitTaskSpec ==
    /\ InitStore /\ InitConc /\ InitReader /\ InitWeb
    /\ cpc = "next_envelope" /\ cenv = NoEnvelope /\ kpc = "sleeping" /\ cutoff = 0
    /\ db_lock = "free" /\ faulted = FALSE /\ handled = 0

\* the clock advances
Tick ==
    /\ now < MaxTime
    /\ now' = now + 1
    /\ UNCHANGED <<db, log, concVars, taskVars, readerVars, webVars>>

\* line 224: the async for receives the next (topic, env)
ConsumerNext(env) ==
    /\ cpc = "next_envelope"
    /\ handled < MaxHandled
    /\ cenv' = env
    /\ cpc' = "acquire"
    /\ UNCHANGED <<storeVars, concVars, kpc, cutoff, db_lock, faulted, handled, readerVars, webVars>>

\* a consumer that enters the block without waiting for the lock
ConsumerAcquireNoWait ==
    /\ cpc = "acquire"
    /\ db_lock' = "consumer"
    /\ cpc' = "processing"
    /\ UNCHANGED <<storeVars, concVars, cenv, kpc, cutoff, faulted, handled, readerVars, webVars>>

\* line 227: async with db_lock
ConsumerAcquire ==
    /\ cpc = "acquire"
    /\ db_lock = "free"
    /\ db_lock' = "consumer"
    /\ cpc' = "processing"
    /\ UNCHANGED <<storeVars, concVars, cenv, kpc, cutoff, faulted, handled, readerVars, webVars>>

\* line 228: await mqtt_store.process_envelope(topic, env), then the lock is
\* released.  Nothing catches what the call raises: it ends
\* load_database_from_mqtt, and the TaskGroup of main (lines 294-320) cancels the
\* other tasks.
ConsumerProcess(fault) ==
    /\ cpc = "processing"
    /\ LET r == process_envelope(db, cenv, now, fault)
       IN /\ db' = r.tables
          /\ cpc' = IF r.raised THEN "dead" ELSE "next_envelope"
          /\ kpc' = IF r.raised THEN "cancelled" ELSE kpc
    /\ faulted' = (faulted \/ fault)
    /\ handled' = handled + 1
    /\ db_lock' = "free"
    /\ cenv' = NoEnvelope
    /\ UNCHANGED <<now, log, concVars, cutoff, readerVars, webVars>>

\* lines 143-160: the sleep to the next run ends and the cutoff is computed
CleanupWake ==
    /\ kpc = "sleeping"
    /\ cutoff' = now - days_to_keep
    /\ kpc' = "acquire"
    /\ UNCHANGED <<storeVars, concVars, cpc, cenv, db_lock, faulted, handled, readerVars, webVars>>

\* line 163: async with db_lock
CleanupAcquire ==
    /\ kpc = "acquire"
    /\ db_lock = "free"
    /\ db_lock' = "cleanup"
    /\ kpc' = "sweeping"
    /\ UNCHANGED <<storeVars, concVars, cpc, cenv, cutoff, faulted, handled, readerVars, webVars>>

\* lines 170-197: the four bulk deletes
Swept(tables, c) ==
    [packet |-> {r \in tables.packet : ~(r.import_time < c)},
     seen |-> {r \in tables.seen : ~(r.import_time < c)},
     traceroute |-> {r \in tables.traceroute : ~(r.import_time < c)},
     node |-> {r \in tables.node : ~(r.last_update < c)}]

\* a sweep whose statements are committed one by one: the Packet delete of a
\* sweep that fails later stays
CleanupSweepAutocommit(fault) ==
    /\ kpc = "sweeping"
    /\ IF fault
       THEN /\ db' = [db EXCEPT !.packet = Swept(db, cutoff).packet]
            /\ kpc' = "caught"
            /\ db_lock' = "free"
       ELSE /\ db' = Swept(db, cutoff)
            /\ kpc' = IF vacuum_db THEN "vacuum" ELSE "sleeping"
            /\ db_lock' = IF vacuum_db THEN db_lock ELSE "free"
    /\ UNCHANGED <<now, log, concVars, cpc, cenv, cutoff, faulted, handled, readerVars, webVars>>

\* lines 166-199: the deletes and their commit in one session.  A fault (a
\* delete or the commit raises) leaves the session without commit, which rolls
\* it back, and leaves the lock, to the except of line 210.
CleanupSweep(fault) ==
    /\ kpc = "sweeping"
    /\ IF fault
       THEN /\ db' = db
            /\ kpc' = "caught"
            /\ db_lock' = "free"
       ELSE /\ db' = Swept(db, cutoff)
            /\ kpc' = IF vacuum_db THEN "vacuum" ELSE "sleeping"
            /\ db_lock' = IF vacuum_db THEN db_lock ELSE "free"
    /\ UNCHANGED <<now, log, concVars, cpc, cenv, cutoff, faulted, handled, readerVars, webVars>>

\* lines 201-208: VACUUM on a connection of its own, after the session's commit;
\* then the lock is released.  A fault raises out of the lock to the except of
\* line 210.
CleanupVacuum(fault) ==
    /\ kpc = "vacuum"
    /\ kpc' = IF fault THEN "caught" ELSE "sleeping"
    /\ db_lock' = "free"
    /\ UNCHANGED <<storeVars, concVars, cpc, cenv, cutoff, faulted, handled, readerVars, webVars>>

\* lines 210-211 and 140-147: except Exception logs the error, and the while
\* loop computes the next run and sleeps
CleanupCaught ==
    /\ kpc = "caught"
    /\ kpc' = "sleeping"
    /\ UNCHANGED <<storeVars, concVars, cpc, cenv, cutoff, db_lock, faulted, handled, readerVars, webVars>>

NextTasks ==
    \/ Tick
    \/ \E env \in TaskEnvelopes : ConsumerNext(env)
    \/ ConsumerAcquire
    \/ \E fault \in BOOLEAN : ConsumerProcess(fault)
    \/ CleanupWake
    \/ CleanupAcquire
    \/ \E fault \in BOOLEAN : CleanupSweep(fault)
    \/ \E fault \in BOOLEAN : CleanupVacuum(fault)
    \/ CleanupCaught

TaskSpec == InitTaskSpec /\ [][NextTasks]_vars

\* Scheduling of the event loop: a task that can run does run (the awaited
\* storage calls return), and asyncio.Lock wakes its waiters in the order they
\* arrived, so a task waiting at db_lock is not overtaken for ever.  Nothing
\* obliges an envelope to arrive, the clock to advance or the sleep to end.
\* the await of line 228 is over: the call has returned or raised (the step of
\* ConsumerProcess, read off the consumer's position)
ProcessEnvelopeEnds == cpc = "processing" /\ cpc' \in {"next_envelope", "dead"}

\* daily_cleanup_at goes on from where it holds db_lock or has caught an error
CleanupRuns ==
    \/ \E fault \in BOOLEAN : CleanupSweep(fault)
    \/ \E fault \in BOOLEAN : CleanupVacuum(fault)
    \/ CleanupCaught

FairTaskSpec ==
    /\ TaskSpec
    /\ SF_vars(ConsumerAcquire)
    /\ SF_vars(CleanupAcquire)
    /\ WF_cpc(ProcessEnvelopeEnds)
    /\ WF_vars(CleanupRuns)

----------------------------------------------------------------------------
(* meshview/mqtt_reader.py: decrypt and get_topic_envelopes. *)

\* the origin address of line 74
RejectFrom == 2144342101

\* the topic patterns of the configuration, in order
Topics == <<"msh/a/#", "msh/b/#">>

\* A transport message.  parses: ServiceEnvelope.FromString accepts the bytes.
\* decoded: the packet carries a plaintext decoded section.  encrypted: what
\* the packet's encrypted bytes are under KEY and the packet's nonce: the
\* ciphertext of a frame, or noise (another channel's key, nothing at all).
Messages ==
    {m \in [topic : {"msh/a/1", "msh/b/2"}, parses : BOOLEAN, decoded : BOOLEAN,
            encrypted : {"frame", "noise"}, from : {NodeA, RejectFrom}] :
        /\ (~m.parses => ~m.decoded /\ m.encrypted = "noise" /\ m.from = NodeA)
        /\ (m.decoded => m.encrypted = "noise")}

\* decrypt(packet), lines 22-35: a packet with a decoded section is left alone;
\* otherwise the decrypted bytes are parsed into packet.decoded, and a
\* DecodeError is passed over
decrypt(packet) ==
    IF packet.decoded THEN packet
    ELSE IF packet.encrypted = "frame" THEN [packet EXCEPT !.decoded = TRUE]
    ELSE packet

\* bool(envelope.packet.decoded): reading a sub-message field gives a message
\* object whether or not the field is set, and protobuf message classes define
\* neither __bool__ nor __len__, so the object is true
Truthy(packet) == TRUE

\* lines 62-75: the checks between a message and the yield; TRUE: it is yielded
Passes(msg) ==
    /\ msg.parses
    /\ Truthy(decrypt(msg))
    /\ msg.from # RejectFrom

InitReaderSpec ==
    /\ InitStore /\ InitConc /\ InitTasks /\ InitWeb
    /\ rpc = "connect" /\ subs = <<>> /\ item = NoItem /\ delivered = <<>>
    /\ errors = 0

CountError == IF errors < MaxErrors THEN errors + 1 ELSE errors

\* a reader that subscribes on its first connection only
ReaderConnectSubscribedOnce ==
    /\ rpc = "connect"
    /\ rpc' = IF errors = 0 THEN "subscribe" ELSE "receive"
    /\ subs' = <<>>
    /\ UNCHANGED <<storeVars, concVars, taskVars, item, delivered, errors, webVars>>

\* lines 44-52: the client connects; the new connection has no subscription
ReaderConnect ==
    /\ rpc = "connect"
    /\ rpc' = "subscribe"
    /\ subs' = <<>>
    /\ UNCHANGED <<storeVars, concVars, taskVars, item, delivered, errors, webVars>>

\* lines 53-55: one subscribe per topic, in order
ReaderSubscribe ==
    /\ rpc = "subscribe"
    /\ Len(subs) < Len(Topics)
    /\ subs' = Append(subs, Topics[Len(subs) + 1])
    /\ rpc' = IF Len(subs) + 1 = Len(Topics) THEN "receive" ELSE "subscribe"
    /\ UNCHANGED <<storeVars, concVars, taskVars, item, delivered, errors, webVars>>

\* lines 61-84: one message of client.messages: dropped, or yielded
ReaderMessage(msg) ==
    /\ rpc = "receive"
    /\ IF Passes(msg)
       THEN /\ Len(delivered) < MaxYield
            /\ item' = [topic |-> msg.topic, envelope |-> decrypt(msg)]
            /\ delivered' = Append(delivered, item')
            /\ rpc' = "yielded"
       ELSE UNCHANGED <<rpc, item, delivered>>
    /\ UNCHANGED <<storeVars, concVars, taskVars, subs, errors, webVars>>

\* the consumer asks for the next pair: the generator resumes after the yield
ReaderResume ==
    /\ rpc = "yielded"
    /\ rpc' = "receive"
    /\ item' = NoItem
    /\ UNCHANGED <<storeVars, concVars, taskVars, subs, delivered, errors, webVars>>

\* an except clause that lets the error go to the consumer
ReaderTransportErrorUncaught ==
    /\ rpc \in {"connect", "subscribe", "receive"}
    /\ rpc' = "raised"
    /\ errors' = CountError
    /\ UNCHANGED <<storeVars, concVars, taskVars, subs, item, delivered, webVars>>

\* lines 86-87: aiomqtt.MqttError raised by the connect, a subscribe or the
\* message stream is caught inside the while loop
ReaderTransportError ==
    /\ rpc \in {"connect", "subscribe", "receive"}
    /\ rpc' = "backoff"
    /\ errors' = CountError
    /\ UNCHANGED <<storeVars, concVars, taskVars, subs, item, delivered, webVars>>

\* line 88: await asyncio.sleep(1), then the while loop connects again
ReaderBackoff ==
    /\ rpc = "backoff"
    /\ rpc' = "connect"
    /\ UNCHANGED <<storeVars, concVars, taskVars, subs, item, delivered, errors, webVars>>

NextReader ==
    \/ ReaderConnect
    \/ ReaderSubscribe
    \/ \E msg \in Messages : ReaderMessage(msg)
    \/ ReaderResume
    \/ ReaderTransportError
    \/ ReaderBackoff

ReaderSpec == InitReaderSpec /\ [][NextReader]_vars

\* the sleep of line 88 ends
FairReaderSpec == ReaderSpec /\ WF_vars(ReaderBackoff)

----------------------------------------------------------------------------
(* Claims about the store fed one envelope at a time (Spec). *)

LastCall == log[Len(log)]
HasGateway(env) == env.gateway_id # NoGateway
PacketRowsOf(id) == SelectPacket(db, id)
SeenRowsOf(id) == {r \in db.seen : r.packet_id = id}

\* C2: feeding the same envelope (non-zero message id, a gateway, an rx-time)
\* twice in succession leaves exactly one Packet row for its id, and the second
\* call does not raise.
C2_SameEnvelopeTwice ==
    \A i \in 2..Len(log) :
        (/\ i = Len(log)
         /\ log[i].env = log[i - 1].env
         /\ log[i].env.id # 0
         /\ HasGateway(log[i].env))
        => /\ ~log[i].raised
           /\ Cardinality(PacketRowsOf(log[i].env.id)) = 1

\* the (gateway address, rx-time) pair of a call
PairOf(env) == <<GatewayNodeId(env), env.rx_time>>

\* every call so far carried message id `id`, with a gateway, and no two calls
\* the same (gateway address, rx-time) pair
DistinctSightings(id) ==
    /\ \A i \in 1..Len(log) : log[i].env.id = id /\ HasGateway(log[i].env)
    /\ \A i, j \in 1..Len(log) : i # j => PairOf(log[i].env) # PairOf(log[j].env)

\* C3: after N envelopes with the same non-zero message id and pairwise distinct
\* (gateway address, rx-time) pairs, ingested one at a time into an empty store,
\* there is exactly 1 Packet row and there are exactly N PacketSeen rows for
\* that id.
C3_OnePacketNSeen ==
    \A id \in MsgIds \ {0} :
        (Len(log) >= 1 /\ DistinctSightings(id))
        => /\ Cardinality(PacketRowsOf(id)) = 1
           /\ Cardinality(SeenRowsOf(id)) = Len(log)

\* C4: at most one PacketSeen row per (message id, gateway address, rx-time)
\* triple in every state, and exactly one for the triple of two successive
\* envelopes that carry the same triple.
C4_SeenTripleUnique ==
    /\ \A r1, r2 \in db.seen :
          (r1.packet_id = r2.packet_id /\ r1.node_id = r2.node_id
           /\ r1.rx_time = r2.rx_time) => r1 = r2
    /\ \A i \in 2..Len(log) :
          (/\ i = Len(log)
           /\ log[i].env.id # 0 /\ log[i].env.id = log[i - 1].env.id
           /\ HasGateway(log[i].env) /\ HasGateway(log[i - 1].env)
           /\ PairOf(log[i].env) = PairOf(log[i - 1].env))
          => Cardinality(SelectSeen(db, log[i].env.id, GatewayNodeId(log[i].env),
                                    log[i].env.rx_time)) = 1

\* C8: once process_envelope has handled an envelope with a non-zero message id
\* and a non-empty gateway id, its Packet row and its PacketSeen row are
\* committed, whatever happened in the map-report branch and the enrichment.
C8_AdmissionCommitted ==
    (Len(log) >= 1 /\ LastCall.env.id # 0 /\ HasGateway(LastCall.env))
    => /\ PacketRowsOf(LastCall.env.id) # {}
       /\ SelectSeen(db, LastCall.env.id, GatewayNodeId(LastCall.env),
                     LastCall.env.rx_time) # {}

\* C9: a process_envelope call on an envelope whose message id is zero leaves
\* the Packet, PacketSeen and Traceroute tables exactly as they were.
C9_ZeroIdFrame ==
    [][(log' # log /\ log'[Len(log')].env.id = 0)
       => /\ db'.packet = db.packet
          /\ db'.seen = db.seen
          /\ db'.traceroute = db.traceroute]_vars

\* a zero-id map report was handled (it changed the Node table) while the three
\* tables held rows
C9_Witness ==
    /\ Len(log) >= 2
    /\ LastCall.env.id = 0 /\ LastCall.env.portnum = "MAP_REPORT_APP"
    /\ ~LastCall.raised
    /\ db.node # {} /\ db.packet # {} /\ db.seen # {} /\ db.traceroute # {}
    /\ \A r \in db.node : r.last_lat = 5

----------------------------------------------------------------------------
(* Claims about interleaved executions (ConcSpec). *)

\* C1: in every state reached by process_envelope calls, run one after another
\* or two at a time interleaved, the store holds at most one Packet row per
\* message id.
C1_OnePacketPerId ==
    \A id \in MsgIds : Cardinality(SelectPacket(db, id)) <= 1

\* the race: a session whose select(Packet) found no row is about to INSERT while
\* a row with its message id, from another envelope, has been committed
C1_Witness ==
    \E p \in Sessions :
        /\ sess[p].pc = "insert_packet"
        /\ \E r \in SelectPacket(db, sess[p].env.id) : r.portnum # sess[p].env.portnum

----------------------------------------------------------------------------
(* Claims about the task group (TaskSpec). *)

InUnitOfWork == cpc = "processing"
InSweep == kpc \in {"sweeping", "vacuum"}

\* C5: the retention sweep (deletes, commit, VACUUM) and a process_envelope unit
\* of work are never under way together: whichever is under way holds db_lock,
\* and db_lock has one holder.
C5_MutualExclusion ==
    /\ ~(InUnitOfWork /\ InSweep)
    /\ (InUnitOfWork => db_lock = "consumer")
    /\ (InSweep => db_lock = "cleanup")

\* an envelope waits at db_lock while the sweep runs on a store that holds rows
C5_Witness ==
    /\ cpc = "acquire" /\ InSweep /\ db_lock = "cleanup"
    /\ db.packet # {}

\* C7: a storage fault inside one envelope's unit of work aborts that envelope
\* only: load_database_from_mqtt keeps running.
C7_ConsumerSurvivesFault == faulted => cpc # "dead"

----------------------------------------------------------------------------
(* Claims about the reader (ReaderSpec, FairReaderSpec). *)

\* C6: a transport error never ends get_topic_envelopes and never reaches its
\* consumer, and after every transport error a new connection attempt follows.
C6_ReconnectsForever ==
    /\ [](rpc \in {"connect", "subscribe", "receive", "yielded", "backoff"})
    /\ (rpc = "backoff" ~> rpc = "connect")

\* a transport error struck after pairs were yielded, and not for the first time
C6_Witness == rpc = "backoff" /\ errors = MaxErrors /\ delivered # <<>>

\* C10: every pair yielded comes from a message that parsed as an envelope,
\* whose packet has a decoded section after decrypt, and whose origin is not the
\* rejected address.
C10_YieldedAreDecoded ==
    \A i \in 1..Len(delivered) :
        /\ delivered[i].envelope.parses
        /\ delivered[i].envelope.decoded
        /\ delivered[i].envelope.from # RejectFrom

----------------------------------------------------------------------------
(* The consumer loop driving the reader: load_database_from_mqtt iterates      *)
(* get_topic_envelopes, an async generator, which runs only between the        *)
(* consumer's request for the next pair and its next yield.                    *)

\* the envelopes the transport messages of this specification carry
PipeEnvelopes ==
    {e \in TaskEnvelopes :
        /\ e.id = 1
        /\ e.payload \in TextPayloads
              \cup {u \in UserPayloads : u.id \in {IdCanon, IdUpper} /\ u.role = 0}}

\* a transport message together with the envelope its bytes parse to
PipeMessages ==
    {[topic |-> m.topic, parses |-> m.parses, decoded |-> m.decoded,
      encrypted |-> m.encrypted, from |-> m.from, env |-> e] :
        m \in {x \in Messages : x.topic = "msh/a/1" /\ x.from = NodeA},
        e \in PipeEnvelopes}

\* What process_envelope reads from a yielded envelope: a packet left without a
\* decoded section reads as port 0 (UNKNOWN_APP) with an empty payload.
EnvelopeOf(yielded) ==
    IF yielded.decoded THEN yielded.env
    ELSE [yielded.env EXCEPT !.portnum = "UNKNOWN_APP", !.payload = Undecodable]

InitPipeSpec ==
    /\ InitStore /\ InitConc /\ InitWeb
    /\ cpc = "next_envelope" /\ cenv = NoEnvelope /\ kpc = "sleeping" /\ cutoff = 0
    /\ db_lock = "free" /\ faulted = FALSE /\ handled = 0
    /\ rpc = "connect" /\ subs = <<>> /\ item = NoItem /\ delivered = <<>>
    /\ errors = 0

\* startdb.py line 224: the async for binds (topic, env) to the pair yielded
PipeTake ==
    /\ cpc = "next_envelope"
    /\ rpc = "yielded"
    /\ cenv' = EnvelopeOf(item.envelope)
    /\ cpc' = "acquire"
    /\ UNCHANGED <<storeVars, concVars, kpc, cutoff, db_lock, faulted, handled, readerVars, webVars>>

\* startdb.py line 228: the call, run to its end under db_lock; the loop body is
\* over.  What the call raises ends the loop and the task group.
PipeProcess ==
    /\ cpc = "processing"
    /\ LET r == process_envelope(db, cenv, now, FALSE)
       IN /\ db' = r.tables
          /\ log' = Append(log, [env |-> cenv, raised |-> r.raised])
          /\ cpc' = IF r.raised THEN "dead" ELSE "loop"
          /\ kpc' = IF r.raised THEN "cancelled" ELSE kpc
    /\ handled' = handled + 1
    /\ db_lock' = "free"
    /\ cenv' = NoEnvelope
    /\ UNCHANGED <<now, concVars, cutoff, faulted, readerVars, webVars>>

\* a generator that goes on to its next message while the pair it yielded is
\* still with the consumer
PipeResumeEarly ==
    /\ rpc = "yielded"
    /\ rpc' = "receive"
    /\ item' = NoItem
    /\ cpc' = IF cpc = "loop" THEN "next_envelope" ELSE cpc
    /\ UNCHANGED <<storeVars, concVars, cenv, kpc, cutoff, db_lock, faulted, handled,
                   subs, delivered, errors, webVars>>

\* startdb.py line 224, mqtt_reader.py line 84: the async for asks for the next
\* pair, which resumes the generator after its yield
PipeResume ==
    /\ cpc = "loop"
    /\ rpc = "yielded"
    /\ rpc' = "receive"
    /\ item' = NoItem
    /\ cpc' = "next_envelope"
    /\ UNCHANGED <<storeVars, concVars, cenv, kpc, cutoff, db_lock, faulted, handled,
                   subs, delivered, errors, webVars>>

NextPipe ==
    \/ ReaderConnect
    \/ ReaderSubscribe
    \/ \E msg \in PipeMessages : ReaderMessage(msg)
    \/ ReaderTransportError
    \/ ReaderBackoff
    \/ PipeTake
    \/ ConsumerAcquire
    \/ PipeProcess
    \/ PipeResume
    \/ CleanupWake
    \/ CleanupAcquire
    \/ \E fault \in BOOLEAN : CleanupSweep(fault)
    \/ \E fault \in BOOLEAN : CleanupVacuum(fault)
    \/ CleanupCaught

PipeSpec == InitPipeSpec /\ [][NextPipe]_vars

\* C11: envelopes are processed one at a time in receipt order: the i-th
\* process_envelope call is on the i-th pair yielded, at most one yielded pair
\* has not had its call return, the call under way is on the last pair yielded,
\* and the reader yields nothing while a pair is with the consumer.
C11_OneAtATimeInOrder ==
    /\ Len(log) <= Len(delivered)
    /\ Len(delivered) <= Len(log) + 1
    /\ \A i \in 1..Len(log) : log[i].env = EnvelopeOf(delivered[i].envelope)
    /\ (cpc \in {"acquire", "processing"}
        => /\ Len(delivered) = Len(log) + 1
           /\ cenv = EnvelopeOf(delivered[Len(delivered)].envelope)
           /\ rpc = "yielded")

\* two different envelopes have been processed, in the order they were yielded
C11_Witness ==
    /\ Len(log) = 2 /\ Len(delivered) = 2
    /\ log[1].env # log[2].env
    /\ log[1].env = EnvelopeOf(delivered[1].envelope)
    /\ log[2].env = EnvelopeOf(delivered[2].envelope)

----------------------------------------------------------------------------
(* meshview/web.py, the Topology Builder: graph_network, nodegraph and          *)
(* api_edges, each a function of the stored history inside its time window.     *)
(* The history is given as what the store accessors return: the Traceroute      *)
(* rows joined to their Packet, in import order, with the hop list their route  *)
(* decodes to; the neighbor-info packets with the neighbor list they decode to; *)
(* the zero-hop (PacketSeen, Packet) pairs; the addresses of the Node rows      *)
(* get_nodes returns.                                                           *)

\* Traceroute rows, neighbor-info packets and sightings in one history
MaxTraceroutes == 2
MaxNeighborPackets == 1
MaxSightings == 1

\* node addresses: origin 1, relays 2 and 3, destination 4
Addrs == 1..4

TracerouteRows ==
    {[packet_id |-> i, from |-> 1, to |-> 4, route |-> h, done |-> d,
      gateway_node_id |-> g] :
        i \in {1, 2}, h \in {<<>>, <<2, 3>>}, d \in BOOLEAN, g \in {1, 2, 3, 4}}

\* a neighbor list may name the reporting node itself
NeighborPackets ==
    {[from |-> 1, neighbors |-> ns] : ns \in {<<>>, <<1>>, <<2>>, <<2, 3>>}}

Sightings == {[from |-> 1, node_id |-> 2]}

SeqsUpTo(S, n) == UNION {[1..k -> S] : k \in 0..n}

Histories ==
    [traceroutes : SeqsUpTo(TracerouteRows, MaxTraceroutes),
     neighborinfo : SeqsUpTo(NeighborPackets, MaxNeighborPackets),
     sightings : SeqsUpTo(Sightings, MaxSightings),
     active : {Addrs, Addrs \ {2}}]

Range(q) == {q[i] : i \in 1..Len(q)}

RECURSIVE Flatten(_)
Flatten(qs) == IF qs = <<>> THEN <<>> ELSE Head(qs) \o Flatten(Tail(qs))

\* graph_network lines 915-922, nodegraph lines 1276-1282
Path(tr) ==
    LET path == <<tr.from>> \o tr.route
    IN IF tr.done THEN Append(path, tr.to)
       ELSE IF path[Len(path)] # tr.gateway_node_id
            THEN Append(path, tr.gateway_node_id)
            ELSE path

\* api_edges lines 1599-1600
ApiPath(tr) ==
    Append(<<tr.from>> \o tr.route, IF tr.done THEN tr.to ELSE tr.gateway_node_id)

\* zip(path, path[1:]), each pair an occurrence of an edge of type ty
PathEdges(path, ty) ==
    [i \in 1..(Len(path) - 1) |-> [edge |-> <<path[i], path[i + 1]>>, type |-> ty]]

\* lines 944-948, 1299-1305, 1611-1612: an edge from each neighbor to the origin
NeighborEdges(packet, ty) ==
    [i \in 1..Len(packet.neighbors) |->
        [edge |-> <<packet.neighbors[i], packet.from>>, type |-> ty]]

\* lines 929-935: an edge from the origin to the observing node
SightingEdges(q) ==
    [i \in 1..Len(q) |-> [edge |-> <<q[i].from, q[i].node_id>>, type |-> "sni"]]

\* the node_ids set of lines 909-913, 930-931, 942-945
NodeIdsOf(h) ==
    UNION {{tr.gateway_node_id, tr.from, tr.to} \cup Range(tr.route) :
              tr \in Range(h.traceroutes)}
    \cup UNION {{s.node_id, s.from} : s \in Range(h.sightings)}
    \cup UNION {{p.from} \cup Range(p.neighbors) : p \in Range(h.neighborinfo)}

\* the keys of a Counter / dict, in insertion order, for a sequence of occurrences
RECURSIVE Keys(_)
Keys(occ) ==
    IF occ = <<>> THEN <<>>
    ELSE LET rest == Keys(SubSeq(occ, 1, Len(occ) - 1))
             e == occ[Len(occ)].edge
         IN IF e \in Range(rest) THEN rest ELSE Append(rest, e)

\* edges[(src, dest)] += 1 for each occurrence
Counter(occ) ==
    [e \in Range(Keys(occ)) |-> Cardinality({i \in 1..Len(occ) : occ[i].edge = e})]

\* edge_type[(src, dest)] = type for each occurrence: the last one stands
LastTypes(occ) ==
    [e \in Range(Keys(occ)) |->
        occ[CHOOSE i \in 1..Len(occ) :
              occ[i].edge = e /\ \A j \in (i + 1)..Len(occ) : occ[j].edge # e].type]

EndpointsOf(occ) == UNION {{occ[i].edge[1], occ[i].edge[2]} : i \in 1..Len(occ)}

\* graph_network lines 954-966: the rows whose paths are counted; a done row is
\* skipped when a done row of its packet id came before it
RECURSIVE CountedRows(_, _)
CountedRows(trs, tr_done) ==
    IF trs = <<>> THEN <<>>
    ELSE LET tr == Head(trs)
         IN IF tr.done /\ tr.packet_id \in tr_done
            THEN CountedRows(Tail(trs), tr_done)
            ELSE <<tr>> \o CountedRows(Tail(trs),
                                      IF tr.done THEN tr_done \cup {tr.packet_id}
                                      ELSE tr_done)

\* graph_network lines 925-966: every edge occurrence, in the order counted
NetworkOccurrences(h) ==
    LET counted == CountedRows(h.traceroutes, {})
    IN SightingEdges(h.sightings)
       \o Flatten([i \in 1..Len(h.neighborinfo) |-> NeighborEdges(h.neighborinfo[i], "ni")])
       \o Flatten([i \in 1..Len(counted) |-> PathEdges(Path(counted[i]), "tr")])

\* graph_network: used_nodes after line 966
NetworkUsedNodes(h) ==
    EndpointsOf(NetworkOccurrences(h)) \cup {p.from : p \in Range(h.neighborinfo)}

\* lines 979-981 and 988: edge_map.get(node, []), edge_map being the index from
\* a destination to the sources of its edges
SrcsOf(keys, node) ==
    LET ks == SelectSeq(keys, LAMBDA k : k[2] = node)
    IN [i \in 1..Len(ks) |-> ks[i][1]]

\* lines 986-991: one level, the (dest, node) pairs counted into new_edges
RECURSIVE ScanQueue(_, _)
ScanQueue(keys, queue) ==
    IF queue = <<>> THEN <<>>
    ELSE LET node == Head(queue)
             srcs == SrcsOf(keys, node)
         IN [i \in 1..Len(srcs) |-> [edge |-> <<srcs[i], node>>, type |-> "bfs"]]
            \o ScanQueue(keys, Tail(queue))

\* a search that runs one level more than depth
RECURSIVE BfsOneMore(_, _, _, _)
BfsOneMore(keys, queue, depth, acc) ==
    IF depth < 0 THEN acc
    ELSE LET found == ScanQueue(keys, queue)
             next_queue == [i \in 1..Len(found) |-> found[i].edge[1]]
         IN BfsOneMore(keys, next_queue, depth - 1,
                       [used |-> acc.used \cup Range(queue) \cup Range(next_queue),
                        found |-> acc.found \o found])

\* lines 983-992: depth levels from the queue; acc is [used, found]
RECURSIVE Bfs(_, _, _, _)
Bfs(keys, queue, depth, acc) ==
    IF depth <= 0 THEN acc
    ELSE LET found == ScanQueue(keys, queue)
             next_queue == [i \in 1..Len(found) |-> found[i].edge[1]]
         IN Bfs(keys, next_queue, depth - 1,
                [used |-> acc.used \cup Range(queue) \cup Range(next_queue),
                 found |-> acc.found \o found])

\* a rendering that marks a mutual pair "both" without holding its reverse back
RECURSIVE RenderNoMerge(_, _, _, _)
RenderNoMerge(keys, edges, edge_type, edge_added) ==
    IF keys = <<>> THEN <<>>
    ELSE LET e == Head(keys)
             rev == <<e[2], e[1]>>
             both == rev \in DOMAIN edges /\ edge_type[e] = edge_type[rev]
         IN IF e \notin edge_added
            THEN <<[src |-> e[1], dest |-> e[2], type |-> edge_type[e],
                    dir |-> IF both THEN "both" ELSE "forward"]>>
                 \o RenderNoMerge(Tail(keys), edges, edge_type, edge_added \cup {e})
            ELSE RenderNoMerge(Tail(keys), edges, edge_type, edge_added)

\* lines 1031-1056: the edges drawn, in order; an edge whose reverse has the same
\* type is drawn once, with dir "both"
RECURSIVE Render(_, _, _, _)
Render(keys, edges, edge_type, edge_added) ==
    IF keys = <<>> THEN <<>>
    ELSE LET e == Head(keys)
             rev == <<e[2], e[1]>>
             both == rev \in DOMAIN edges /\ edge_type[e] = edge_type[rev]
             added == IF both THEN edge_added \cup {rev} ELSE edge_added
         IN IF e \notin added
            THEN <<[src |-> e[1], dest |-> e[2], type |-> edge_type[e],
                    dir |-> IF both THEN "both" ELSE "forward"]>>
                 \o Render(Tail(keys), edges, edge_type, added \cup {e})
            ELSE Render(Tail(keys), edges, edge_type, added)

\* graph_network(request), lines 897-1060; root is NULL when the query has none
graph_network(h, root, depth) ==
    LET occ == NetworkOccurrences(h)
        node_ids == NodeIdsOf(h)
        edge_type == LastTypes(occ)
        scoped == Bfs(Keys(occ), <<root>>, depth, [used |-> {}, found |-> <<>>])
        used_nodes == IF root # NULL THEN scoped.used ELSE NetworkUsedNodes(h)
        final == IF root # NULL THEN scoped.found ELSE occ
        edges == Counter(final)
    IN [view |-> "graph_network", root |-> root, depth |-> depth,
        paths |-> [i \in 1..Len(h.traceroutes) |-> Path(h.traceroutes[i])],
        nodes |-> {n \in used_nodes : n \in node_ids},
        edges |-> edges,
        rendered |-> Render(Keys(final), edges, edge_type, {})]

\* nodegraph lines 1269-1305: every edge occurrence, in the order counted
GraphOccurrences(h) ==
    Flatten([i \in 1..Len(h.traceroutes) |->
                PathEdges(Path(h.traceroutes[i]), "traceroute")])
    \o Flatten([i \in 1..Len(h.neighborinfo) |->
                NeighborEdges(h.neighborinfo[i], "neighbor")])

\* nodegraph(request), lines 1258-1333; the weight drawn is
\* max(weight / max_weight * 10, 1)
nodegraph(h) ==
    LET occ == GraphOccurrences(h)
        weight == Counter(occ)
        used_nodes == EndpointsOf(occ) \cup {p.from : p \in Range(h.neighborinfo)}
        max_weight == IF DOMAIN weight = {} THEN 1
                      ELSE CHOOSE m \in Range([i \in 1..Len(Keys(occ)) |-> weight[Keys(occ)[i]]]) :
                             \A e \in DOMAIN weight : weight[e] <= m
    IN [view |-> "nodegraph",
        paths |-> [i \in 1..Len(h.traceroutes) |-> Path(h.traceroutes[i])],
        nodes |-> {n \in h.active : n \in used_nodes},
        edges |-> weight, edge_type |-> LastTypes(occ), max_weight |-> max_weight]

\* dict.setdefault and the assignments of line 1603: the traceroute occurrences
\* come first, so the first occurrence of an edge gives its type
FirstTypes(occ) ==
    [e \in Range(Keys(occ)) |->
        occ[CHOOSE i \in 1..Len(occ) :
              occ[i].edge = e /\ \A j \in 1..(i - 1) : occ[j].edge # e].type]

\* request.query.get("type") of a query without type=
NoType == "None"

\* api_edges(request), lines 1584-1623
api_edges(h, filter_type) ==
    LET tr == IF filter_type \in {NoType, "traceroute"}
              THEN Flatten([i \in 1..Len(h.traceroutes) |->
                              PathEdges(ApiPath(h.traceroutes[i]), "traceroute")])
              ELSE <<>>
        ni == IF filter_type \in {NoType, "neighbor"}
              THEN Flatten([i \in 1..Len(h.neighborinfo) |->
                              NeighborEdges(h.neighborinfo[i], "neighbor")])
              ELSE <<>>
    IN [view |-> "api_edges", filter_type |-> filter_type,
        paths |-> IF filter_type \in {NoType, "traceroute"}
                  THEN [i \in 1..Len(h.traceroutes) |-> ApiPath(h.traceroutes[i])]
                  ELSE <<>>,
        edges |-> FirstTypes(tr \o ni)]

\* the depth= values of the requests
Depths == {0, 1, 2}

\* One request is served per run: a response is a function of the history alone.
InitWebSpec ==
    /\ InitStore /\ InitConc /\ InitTasks /\ InitReader
    /\ hist \in Histories
    /\ resp = NoResponse

GraphNetwork(root, depth) ==
    /\ resp = NoResponse
    /\ resp' = graph_network(hist, root, depth)
    /\ UNCHANGED <<storeVars, concVars, taskVars, readerVars, hist>>

NodeGraph ==
    /\ resp = NoResponse
    /\ resp' = nodegraph(hist)
    /\ UNCHANGED <<storeVars, concVars, taskVars, readerVars, hist>>

ApiEdges(filter_type) ==
    /\ resp = NoResponse
    /\ resp' = api_edges(hist, filter_type)
    /\ UNCHANGED <<storeVars, concVars, taskVars, readerVars, hist>>

NextWeb ==
    \/ \E root \in {NULL} \cup Addrs, depth \in Depths : GraphNetwork(root, depth)
    \/ NodeGraph
    \/ \E filter_type \in {NoType, "traceroute", "neighbor"} : ApiEdges(filter_type)

WebSpec == InitWebSpec /\ [][NextWeb]_vars

----------------------------------------------------------------------------
(* Claims about the Topology Builder (WebSpec). *)

Served == resp.view \in {"graph_network", "nodegraph", "api_edges"}

\* C12: in graph_network, nodegraph and api_edges the path of a Traceroute row
\* with origin O, hop list H, destination D and gateway G is [O] ++ H ++ [D]
\* when done is true; when done is false it is [O] ++ H ++ [G], unless the last
\* element of [O] ++ H is G, and then it is [O] ++ H.
C12_PathReconstruction ==
    Served =>
        \A i \in 1..Len(resp.paths) :
            LET tr == hist.traceroutes[i]
                stem == <<tr.from>> \o tr.route
            IN /\ (tr.done => resp.paths[i] = stem \o <<tr.to>>)
               /\ (~tr.done /\ stem[Len(stem)] # tr.gateway_node_id
                     => resp.paths[i] = stem \o <<tr.gateway_node_id>>)
               /\ (~tr.done /\ stem[Len(stem)] = tr.gateway_node_id
                     => resp.paths[i] = stem)

\* the aggregated edges of graph_network are O->A, A->B, B->C, with O = 1,
\* A = 2, B = 3, C = 4
ChainGraph ==
    DOMAIN Counter(NetworkOccurrences(hist)) = {<<1, 2>>, <<2, 3>>, <<3, 4>>}

RootScoped(root, depth) ==
    resp.view = "graph_network" /\ resp.root = root /\ resp.depth = depth

\* C13 as stated: on the graph O->A->B->C, graph_network with root = O and
\* depth = 2 returns a node set that includes O, A and B and excludes C.
C13_DepthBoundFromOrigin ==
    (ChainGraph /\ RootScoped(1, 2))
    => /\ {1, 2, 3} \subseteq resp.nodes
       /\ 4 \notin resp.nodes

\* C13 as amended: the search follows the edges backwards, from a destination to
\* its sources.  On the graph O->A->B->C, root = C and depth = 2 give a node set
\* that includes C, B and A and excludes O, and root = O gives O alone.
C13_DepthBoundBackwards ==
    /\ (ChainGraph /\ RootScoped(4, 2))
       => /\ {4, 3, 2} \subseteq resp.nodes
          /\ 1 \notin resp.nodes
    /\ (ChainGraph /\ RootScoped(1, 2)) => resp.nodes = {1}

\* the root-scoped query with root = C, depth = 2 was served on the chain
C13_Witness == ChainGraph /\ RootScoped(4, 2) /\ resp.nodes = {2, 3, 4}

\* the weight a response gives an ordered pair (0: the pair is no edge of it)
WeightOf(e) == IF e \in DOMAIN resp.edges THEN resp.edges[e] ELSE 0

\* the (row, position) pairs at which the rows I of the history have edge e
Traversals(I, e) ==
    {<<i, j>> \in I \X (1..(MaxTraceroutes + 3)) :
        /\ j < Len(Path(hist.traceroutes[i]))
        /\ <<Path(hist.traceroutes[i])[j], Path(hist.traceroutes[i])[j + 1]>> = e}

DoneRows == {i \in 1..Len(hist.traceroutes) : hist.traceroutes[i].done}
NotDoneRows == {i \in 1..Len(hist.traceroutes) : ~hist.traceroutes[i].done}

\* C14: in the edge weights of graph_network and nodegraph, for each packet id at
\* most one done Traceroute row contributes its path, and every not-done row
\* contributes its own (stated on histories whose only evidence is traceroutes).
C14_DoneCountedOncePerPacket ==
    (/\ resp.view \in {"graph_network", "nodegraph"}
     /\ (resp.view = "graph_network" => resp.root = NULL)
     /\ hist.neighborinfo = <<>> /\ hist.sightings = <<>>)
    => \E chosen \in SUBSET DoneRows :
          /\ \A i, k \in chosen :
                hist.traceroutes[i].packet_id = hist.traceroutes[k].packet_id => i = k
          /\ \A e \in Addrs \X Addrs :
                WeightOf(e) = Cardinality(Traversals(NotDoneRows \cup chosen, e))

\* C15: the node set output by graph_network (with or without a root) and by
\* nodegraph is exactly the set of endpoints of the edges output.
C15_NodesAreEdgeEndpoints ==
    resp.view \in {"graph_network", "nodegraph"}
    => resp.nodes = UNION {{e[1], e[2]} : e \in DOMAIN resp.edges}

----------------------------------------------------------------------------
(* meshview/decode_payload.py called on a batch of inputs, one after another. *)

\* calls in one batch
MaxBatch == 2

\* port numbers outside DECODE_MAP
OtherPorts == {"UNKNOWN_APP", "RANGE_TEST_APP"}

\* what a decoded section holds: a port number and payload bytes
DecodedSections ==
    UNION {{[portnum |-> p, payload |-> pl] : pl \in PayloadsOf(p) \cup {Undecodable}} :
             p \in Ports}
    \cup {[portnum |-> p, payload |-> pl] :
        p \in OtherPorts, pl \in TextPayloads \cup {Undecodable}}

\* stored Packet rows, by their payload column
StoredPackets ==
    {[payload |-> f] : f \in DecodedSections \cup {Unparseable}}

InitDecodeSpec ==
    /\ InitStore /\ InitConc /\ InitTasks /\ InitReader
    /\ hist = NoHistory
    /\ resp = [view |-> "decode", calls |-> <<>>]

DecodePayload(d) ==
    /\ Len(resp.calls) < MaxBatch
    /\ resp' = [resp EXCEPT !.calls =
                  Append(@, [fn |-> "decode_payload", portnum |-> d.portnum,
                             payload |-> d.payload,
                             result |-> decode_payload(d.portnum, d.payload)])]
    /\ UNCHANGED <<storeVars, concVars, taskVars, readerVars, hist>>

Decode(packet) ==
    /\ Len(resp.calls) < MaxBatch
    /\ resp' = [resp EXCEPT !.calls =
                  Append(@, [fn |-> "decode", packet |-> packet,
                             result |-> decode(packet)])]
    /\ UNCHANGED <<storeVars, concVars, taskVars, readerVars, hist>>

NextDecode ==
    \/ \E d \in DecodedSections : DecodePayload(d)
    \/ \E packet \in StoredPackets : Decode(packet)

DecodeSpec == InitDecodeSpec /\ [][NextDecode]_vars

\* the port numbers of the decoder's known set
KnownPorts ==
    {"POSITION_APP", "NEIGHBORINFO_APP", "NODEINFO_APP", "TELEMETRY_APP",
     "TRACEROUTE_APP", "ROUTING_APP", "TEXT_MESSAGE_APP", "MAP_REPORT_APP"}

Raised(result) == result.kind = "raise"

\* C16: decode_payload never raises; it returns None for a port number outside
\* the known set and for a known port whose bytes do not decode (truncated,
\* corrupt, invalid UTF-8).  decode returns (None, None) when the stored frame
\* does not parse and (frame, None) when only the inner payload fails.
C16_DecodeNeverRaises ==
    \A i \in 1..Len(resp.calls) :
        LET c == resp.calls[i]
        IN /\ ~Raised(c.result)
           /\ (c.fn = "decode_payload" /\ c.portnum \notin KnownPorts
                 => c.result = None)
           /\ (c.fn = "decode_payload" /\ c.payload = Undecodable => c.result = None)
           /\ (c.fn = "decode" /\ c.packet.payload = Unparseable
                 => c.result = Pair(None, None))
           /\ (c.fn = "decode" /\ c.packet.payload # Unparseable
               /\ c.packet.payload.payload = Undecodable
                 => c.result = Pair(c.packet.payload, None))

\* a text payload of invalid UTF-8 was decoded, then a stored text frame whose
\* inner payload is invalid
C16_Witness ==
    /\ Len(resp.calls) = 2
    /\ resp.calls[1].fn = "decode_payload"
    /\ resp.calls[1].portnum = "TEXT_MESSAGE_APP" /\ resp.calls[1].payload = Undecodable
    /\ resp.calls[1].result = None
    /\ resp.calls[2].fn = "decode"
    /\ resp.calls[2].packet.payload # Unparseable
    /\ resp.calls[2].packet.payload.portnum = "TEXT_MESSAGE_APP"
    /\ resp.calls[2].result = Pair(resp.calls[2].packet.payload, None)

----------------------------------------------------------------------------
(* meshview/mqtt_reader.py, decrypt at the level of bytes.  A byte is an        *)
(* integer 0..255.  Two library functions are stood in for by computable ones   *)
(* of the same shape: the AES block function by a keyed checksum of the         *)
(* counter block, the protobuf wire format of the inner frame by a port byte,   *)
(* a length byte and the payload bytes.                                         *)

\* payload bytes in an inner frame
MaxPayloadLen == 2

\* base64.b64decode("1PG7OiApB1nwvP+rz05pAQ==")
KEY == <<212, 241, 187, 58, 32, 41, 7, 89, 240, 188, 255, 171, 207, 78, 105, 1>>

\* n.to_bytes(length, "little")
RECURSIVE to_bytes(_, _)
to_bytes(n, length) ==
    IF length = 0 THEN <<>> ELSE <<n % 256>> \o to_bytes(n \div 256, length - 1)

\* a nonce with the origin address before the message id
nonce_FromFirst(packet) == to_bytes(packet.from, 8) \o to_bytes(packet.id, 8)

\* lines 25-27: nonce = packet_id + from_node_id
nonce(packet) == to_bytes(packet.id, 8) \o to_bytes(packet.from, 8)

\* bitwise exclusive or of two bytes
RECURSIVE Xor(_, _)
Xor(a, b) ==
    IF a = 0 THEN b
    ELSE IF b = 0 THEN a
    ELSE ((a + b) % 2) + 2 * Xor(a \div 2, b \div 2)

RECURSIVE Dot(_, _, _)
Dot(key, block, j) ==
    IF j = 0 THEN 0 ELSE (key[j] + j) * (block[j] + 1) + Dot(key, block, j - 1)

\* byte pos of the encrypted counter block (the stand-in for AES)
BlockByte(key, block, pos) == (Dot(key, block, Len(block)) * (2 * pos + 1) + pos) % 256

\* Cipher(algorithms.AES(key), modes.CTR(nonce)): update() of an encryptor or a
\* decryptor on data shorter than a block: data XOR the encrypted first counter
\* block, which is the nonce
CTR(key, iv, data) == [i \in 1..Len(data) |-> Xor(data[i], BlockByte(key, iv, i))]

\* SerializeToString of an inner frame
SerializeToString(frame) == <<frame.portnum, Len(frame.payload)>> \o frame.payload

DecodeError == [kind |-> "raise", exc |-> "DecodeError"]

\* ParseFromString: the frame the bytes hold, or DecodeError
ParseFromString(raw) ==
    IF Len(raw) >= 2 /\ raw[2] = Len(raw) - 2
    THEN [portnum |-> raw[1], payload |-> SubSeq(raw, 3, Len(raw))]
    ELSE DecodeError

\* decrypt(packet), lines 22-35, on a packet [id, from, has_decoded, decoded,
\* encrypted]
decrypt_bytes(packet) ==
    IF packet.has_decoded THEN packet
    ELSE LET raw_proto == CTR(KEY, nonce(packet), packet.encrypted)
             parsed == ParseFromString(raw_proto)
         IN IF parsed = DecodeError THEN packet
            ELSE [packet EXCEPT !.has_decoded = TRUE, !.decoded = parsed]

PayloadBytes == SeqsUpTo({0, 65, 255}, MaxPayloadLen)

\* inner frames: port 1 (text) and 4 (node info)
Frames == [portnum : {1, 4}, payload : PayloadBytes]

\* a decoded section that is not set reads as the default frame
DefaultFrame == [portnum |-> 0, payload |-> <<>>]

\* message ids and origin addresses of one and of two bytes
PacketIds == {1, 258}
FromIds == {10, 2570}

InitCipherSpec ==
    /\ InitStore /\ InitConc /\ InitTasks /\ InitReader
    /\ hist = NoHistory
    /\ resp = NoResponse

\* a frame is encrypted by its sender under the nonce of (id, from), and the
\* packet carrying the ciphertext is given to decrypt
DecryptEncrypted(frame, id, from) ==
    /\ resp = NoResponse
    /\ LET sent == CTR(KEY, to_bytes(id, 8) \o to_bytes(from, 8),
                       SerializeToString(frame))
           packet == [id |-> id, from |-> from, has_decoded |-> FALSE,
                      decoded |-> DefaultFrame, encrypted |-> sent]
       IN resp' = [view |-> "decrypt", frame |-> frame, packet |-> packet,
                   out |-> decrypt_bytes(packet)]
    /\ UNCHANGED <<storeVars, concVars, taskVars, readerVars, hist>>

\* a packet that carries a decoded section, and whatever bytes in encrypted, is
\* given to decrypt
DecryptDecoded(frame, id, from, bytes) ==
    /\ resp = NoResponse
    /\ LET packet == [id |-> id, from |-> from, has_decoded |-> TRUE,
                      decoded |-> frame, encrypted |-> bytes]
       IN resp' = [view |-> "decrypt", frame |-> frame, packet |-> packet,
                   out |-> decrypt_bytes(packet)]
    /\ UNCHANGED <<storeVars, concVars, taskVars, readerVars, hist>>

NextCipher ==
    \E frame \in Frames, id \in PacketIds, from \in FromIds :
        \/ DecryptEncrypted(frame, id, from)
        \/ \E bytes \in {<<>>, SerializeToString(frame)} :
              DecryptDecoded(frame, id, from, bytes)

CipherSpec == InitCipherSpec /\ [][NextCipher]_vars

\* C17: decrypt on a packet carrying the ciphertext of a serialized frame, made
\* with the fixed key in CTR mode under the nonce (8-byte little-endian message
\* id, then 8-byte little-endian origin address), recovers the frame exactly;
\* decrypt leaves a packet that already has a decoded section unchanged.
C17_DecryptRoundTrip ==
    resp.view = "decrypt"
    => /\ resp.out.has_decoded /\ resp.out.decoded = resp.frame
       /\ (resp.packet.has_decoded => resp.out = resp.packet)

\* a two-byte message id and a two-byte origin address: the ciphertext differs
\* from the serialized frame and decrypt recovered the frame from it
C17_Witness ==
    /\ resp.view = "decrypt"
    /\ ~resp.packet.has_decoded
    /\ resp.packet.id = 258 /\ resp.packet.from = 2570
    /\ Len(resp.frame.payload) = MaxPayloadLen
    /\ resp.packet.encrypted # SerializeToString(resp.frame)
    /\ resp.out.decoded = resp.frame

----------------------------------------------------------------------------
(* The store fed node-info and map-report envelopes whose hardware-model and   *)
(* role codes range over known and unknown values.                             *)

\* an enum code that HardwareModel and Config.DeviceConfig.Role do not define
UnknownCode == 9

UserPayloadsWide ==
    {[kind |-> "user", id |-> i, hw_model |-> h, role |-> r] :
        i \in UserIds, h \in {1, UnknownCode}, r \in {0, UnknownCode}}

MapReportPayloadsWide ==
    {[kind |-> "map_report", hw_model |-> h, role |-> r, firmware |-> f,
      latitude_i |-> f \div 5, longitude_i |-> f \div 5] :
        h \in {1, UnknownCode}, r \in {0, UnknownCode}, f \in {25, 30}}

NodeEnvelopes ==
    {[id |-> i, portnum |-> "NODEINFO_APP", payload |-> pl, want_response |-> FALSE,
      from |-> NodeA, gateway_id |-> GatewayB, rx_time |-> 1] :
        i \in {1}, pl \in UserPayloadsWide \cup {Undecodable}}
    \cup
    {[id |-> i, portnum |-> "MAP_REPORT_APP", payload |-> pl, want_response |-> FALSE,
      from |-> NodeA, gateway_id |-> GatewayB, rx_time |-> 1] :
        i \in {0, 1}, pl \in MapReportPayloadsWide \cup {Undecodable}}

NextNodes == \E env \in NodeEnvelopes : ProcessEnvelope(env)

NodeSpec == Init /\ [][NextNodes]_vars

\* the call just made (in the step log -> log')
Called == log' # log
CalledEnv == log'[Len(log')].env

DecodableMapReport(env) ==
    env.portnum = "MAP_REPORT_APP" /\ env.payload # Undecodable

\* the Node rows of numeric address n
NodeRowsOf(tables, n) == {r \in tables.node : r.node_id = n}

\* the row carries the report's firmware and position
FromReport(r, report) ==
    /\ r.firmware = report.firmware
    /\ r.last_lat = report.latitude_i
    /\ r.last_long = report.longitude_i

\* C18: a decodable map-report from address n = 0x0000000a for which no Node row
\* exists creates exactly one Node row, with id "!0000000a", numeric address n
\* and the report's firmware, latitude and longitude; a map-report from n when
\* its row exists updates that row and creates no further row.
C18_MapReportCreatesOneNode ==
    [][(Called /\ DecodableMapReport(CalledEnv))
       => /\ NodeRowsOf(db, NodeA) = {}
             => /\ Cardinality(db'.node) = Cardinality(db.node) + 1
                /\ \E r \in db'.node :
                      /\ NodeRowsOf(db', NodeA) = {r}
                      /\ r.id = <<"!", "0", "0", "0", "0", "0", "0", "0", "a">>
                      /\ FromReport(r, CalledEnv.payload)
          /\ NodeRowsOf(db, NodeA) # {}
             => /\ Cardinality(db'.node) = Cardinality(db.node)
                /\ \E r \in db'.node :
                      /\ NodeRowsOf(db', NodeA) = {r}
                      /\ r.id \in {q.id : q \in NodeRowsOf(db, NodeA)}
                      /\ FromReport(r, CalledEnv.payload)]_vars

OutsideEnum(code) == code = UnknownCode

\* the string a code maps to: its name, or the fallback for a code outside the
\* enumeration
ExpectedHw(code) ==
    IF OutsideEnum(code) THEN <<"unknown", code>> ELSE <<"HardwareModel", code>>
ExpectedRole(code) ==
    IF OutsideEnum(code) THEN <<"unknown", code>> ELSE <<"Role", code>>

\* C20: after a node-info or map-report envelope whose payload carries a
\* hardware-model code or a role code outside the known enumeration, the Node
\* row of that payload exists with the unmapped field set to the fallback
\* "unknown(code)" and the other fields taken from the payload.
C20_UnknownEnumFallback ==
    (/\ Len(log) >= 1
     /\ LastCall.env.payload # Undecodable
     /\ (OutsideEnum(LastCall.env.payload.hw_model)
         \/ OutsideEnum(LastCall.env.payload.role)))
    => LET env == LastCall.env
           rows == IF env.portnum = "MAP_REPORT_APP" THEN NodeRowsOf(db, env.from)
                   ELSE SelectNodeById(db, env.payload.id)
       IN \E r \in rows :
             /\ r.hw_model = ExpectedHw(env.payload.hw_model)
             /\ r.role = ExpectedRole(env.payload.role)
             /\ (env.portnum = "MAP_REPORT_APP" => FromReport(r, env.payload))

\* C19: a call on an envelope with a non-zero message id and an empty gateway
\* identifier creates no PacketSeen row and raises nothing, and the Packet row
\* of its message id is committed when the call is over.
C19_EmptyGatewayKeepsPacket ==
    [][(Called /\ CalledEnv.id # 0 /\ CalledEnv.gateway_id = NoGateway)
       => /\ ~log'[Len(log')].raised
          /\ db'.seen = db.seen
          /\ SelectPacket(db', CalledEnv.id) # {}]_vars

\* the numeric address an identity string stands for (lines 150-153 read as a
\* statement about s): the value of its hex digits after "!", else null
AddressOf(s) ==
    IF s # <<>> /\ s[1] = "!" /\ FullMatchHex(Tail(s)) THEN HexToInt(Tail(s)) ELSE NULL

\* the last call handled a node-info envelope with a non-empty identity string
NodeInfoHandled ==
    /\ Len(log) >= 1
    /\ LastCall.env.portnum = "NODEINFO_APP"
    /\ LastCall.env.id # 0
    /\ HasGateway(LastCall.env)
    /\ LastCall.env.payload # Undecodable
    /\ LastCall.env.payload.id # <<>>

\* C21: after process_envelope handled a node-info envelope (non-zero message
\* id, non-empty gateway id) whose payload has a non-empty identity string s,
\* the store holds exactly one Node row with id = s, and its numeric address is
\* the value of the hex digits of s when s is "!" followed by hex digits and
\* null otherwise, whatever Node rows existed before.
C21_NodeInfoUpsertsByIdentity ==
    NodeInfoHandled
    => LET s == LastCall.env.payload.id
       IN /\ Cardinality(SelectNodeById(db, s)) = 1
          /\ \A r \in SelectNodeById(db, s) : r.node_id = AddressOf(s)

----------------------------------------------------------------------------
(* Claims about the traceroute branch and the Packet table (Spec, TaskSpec). *)

\* the Traceroute rows a step adds, without their autoincrement id
NewTraceroutes == db'.traceroute \ db.traceroute

IsProbe(env) == env.portnum = "TRACEROUTE_APP" /\ env.want_response
IsReply(env) == env.portnum = "TRACEROUTE_APP" /\ ~env.want_response

\* C22: a traceroute reply (want_response false) is recorded as a done row
\* keyed to the packet id of the request it answers, a packet other than the
\* reply itself, and never under its own packet id; a probe (want_response
\* true) is recorded as a done = FALSE row under its own packet id.  (The
\* envelope's request_id is not read by process_envelope; what the step can show
\* is under which packet id the row of the carrying envelope was stored.)
C22_ReplyKeyedToRequest ==
    [][(Called /\ CalledEnv.id # 0 /\ HasGateway(CalledEnv) /\ ~log'[Len(log')].raised)
       => /\ IsReply(CalledEnv)
             => \A r \in NewTraceroutes : r.done /\ r.packet_id # CalledEnv.id
          /\ IsProbe(CalledEnv)
             => \E r \in NewTraceroutes :
                   NewTraceroutes = {r} /\ ~r.done /\ r.packet_id = CalledEnv.id]_vars

\* the step in which the sweep's deletes are committed
SweepCommits == kpc = "sweeping" /\ kpc' \in {"vacuum", "sleeping"}

\* C23: once a Packet row is stored, no process_envelope call changes any of its
\* attributes, whatever the later envelopes with its id contain: every step
\* other than the retention sweep's commit leaves every stored Packet row as it
\* is.
C23_PacketRowsImmutable ==
    [][SweepCommits \/ db.packet \subseteq db'.packet]_vars

\* a Packet row stored by an envelope of another port, and a later traceroute
\* envelope with the same id has been processed and committed
C23_Witness ==
    \E r \in db.packet, q \in db.traceroute :
        /\ q.packet_id = r.id
        /\ r.portnum # "TRACEROUTE_APP"
        /\ q.import_time > r.import_time

\* C28: neither side of db_lock starves: an envelope that waits while the sweep
\* holds the lock is processed in the end, and a sweep that waits for the lock
\* acquires it in the end.
C28_NoStarvation ==
    /\ (cpc = "acquire" /\ db_lock = "cleanup") ~> (cpc = "processing")
    /\ (kpc = "acquire") ~> (kpc = "sweeping")

\* C29: the sweep is all-or-nothing and non-fatal: a sweep whose delete or commit
\* raises leaves every table as it was; whatever is raised inside the sweep or
\* VACUUM is caught: the step leaves db_lock released and the consumer as it is,
\* and the step of daily_cleanup_at after it is the sleep to its next run (the
\* task ends only when the consumer's death cancels the task group).
C29_SweepAllOrNothing ==
    [][/\ (kpc = "sweeping" /\ kpc' = "caught") => db' = db
       /\ (InSweep /\ kpc' # kpc)
          => /\ kpc' \in {"vacuum", "sleeping", "caught"}
             /\ (kpc' # "vacuum" => db_lock' = "free")
             /\ cpc' = cpc
       /\ (kpc = "caught" /\ kpc' # kpc /\ cpc' # "dead") => kpc' = "sleeping"]_vars

\* a sweep that had rows to delete has raised, and the rows are all there
C29_Witness ==
    /\ kpc = "caught"
    /\ Swept(db, cutoff).packet # db.packet

\* C30: every PacketSeen row and every Traceroute row refers to a message id for
\* which a Packet row is stored.
C30_ReferentialIntegrity ==
    /\ \A r \in db.seen : SelectPacket(db, r.packet_id) # {}
    /\ \A r \in db.traceroute : SelectPacket(db, r.packet_id) # {}

----------------------------------------------------------------------------
(* Claims about the edges drawn and the root-scoped search (WebSpec). *)

\* the aggregated edge set of graph_network, before any root scoping
Aggregated == DOMAIN Counter(NetworkOccurrences(hist))

\* the ordered pairs drawn by graph_network, one per drawn edge
Drawn(e) == {i \in 1..Len(resp.rendered) :
                resp.rendered[i].src = e[1] /\ resp.rendered[i].dest = e[2]}

\* C24: a self-loop of the aggregated edge set is in the output edge list: in
\* the edges graph_network draws (query without root) and in nodegraph's edge
\* list.
C24_SelfLoopsPreserved ==
    /\ (resp.view = "graph_network" /\ resp.root = NULL)
       => \A e \in Aggregated : e[1] = e[2] => Drawn(e) # {}
    /\ resp.view = "nodegraph"
       => \A e \in DOMAIN Counter(GraphOccurrences(hist)) :
             e[1] = e[2] => e \in DOMAIN resp.edges

\* the type graph_network has on record for a retained pair
TypeOf(e) == LastTypes(NetworkOccurrences(hist))[e]

\* (a, b), a # b, is retained together with its reverse of the same type
Mutual(e) ==
    /\ e[1] # e[2]
    /\ <<e[2], e[1]>> \in DOMAIN resp.edges
    /\ TypeOf(e) = TypeOf(<<e[2], e[1]>>)

\* C25: in graph_network, with or without a root: a retained pair (a, b), a # b,
\* whose reverse is retained with the same type is drawn as exactly one edge
\* between a and b, with dir "both"; a pair whose reverse is absent or of another
\* type is drawn once, with dir "forward"; no retained pair is drawn twice.
C25_BidirectionalOnce ==
    resp.view = "graph_network"
    => \A e \in DOMAIN resp.edges :
          LET rev == <<e[2], e[1]>>
          IN /\ Cardinality(Drawn(e)) <= 1
             /\ Mutual(e)
                => /\ Cardinality(Drawn(e) \cup Drawn(rev)) = 1
                   /\ \A i \in Drawn(e) \cup Drawn(rev) : resp.rendered[i].dir = "both"
             /\ (e[1] # e[2] /\ ~Mutual(e))
                => /\ Cardinality(Drawn(e)) = 1
                   /\ \A i \in Drawn(e) : resp.rendered[i].dir = "forward"

\* a pair and its reverse of the same type were retained and drawn as one edge,
\* and a pair without such a reverse was drawn forward
C25_Witness ==
    /\ resp.view = "graph_network"
    /\ \E e \in DOMAIN resp.edges : Mutual(e) /\ Drawn(e) # {}
    /\ \E e \in DOMAIN resp.edges : e[1] # e[2] /\ ~Mutual(e) /\ Drawn(e) # {}

\* the nodes from which root is reached along at most d edges of E
RECURSIVE Within(_, _, _)
Within(E, root, d) ==
    IF d <= 0 THEN {root}
    ELSE LET prev == Within(E, root, d - 1)
         IN prev \cup {e[1] : e \in {x \in E : x[2] \in prev}}

RECURSIVE SumOver(_, _)
SumOver(f, S) ==
    IF S = {} THEN 0
    ELSE LET x == CHOOSE y \in S : TRUE IN f[x] + SumOver(f, S \ {x})

\* the number of walks of exactly k edges of E from node n to root
RECURSIVE Walks(_, _, _, _)
Walks(E, n, root, k) ==
    IF k = 0 THEN (IF n = root THEN 1 ELSE 0)
    ELSE LET out == {e \in E : e[1] = n}
         IN SumOver([e \in out |-> Walks(E, e[2], root, k - 1)], out)

\* how often the search from root, depth levels deep, goes over edge e: once for
\* every walk of fewer than depth edges from the edge's destination to root
SearchTraversals(E, e, root, depth) ==
    SumOver([k \in 0..(depth - 1) |-> Walks(E, e[2], root, k)], 0..(depth - 1))

\* C26: for a root-scoped query of graph_network with depth >= 0, the node set
\* is exactly the set of nodes from which the root is reached along at most
\* depth aggregated edges, the root included; every edge of the response is an
\* aggregated edge into a node less than depth edges from the root, and its
\* weight is the number of times the search went over it.
C26_RootScopeExact ==
    (resp.view = "graph_network" /\ resp.root # NULL)
    => /\ resp.nodes = Within(Aggregated, resp.root, resp.depth)
       /\ \A e \in DOMAIN resp.edges :
             /\ e \in Aggregated
             /\ e[2] \in Within(Aggregated, resp.root, resp.depth - 1)
             /\ resp.edges[e] = SearchTraversals(Aggregated, e, resp.root, resp.depth)

----------------------------------------------------------------------------
(* Claims about the reader's subscriptions (ReaderSpec). *)

\* the subscribe calls issued on the current connection are the first n topic
\* patterns of the configuration, each once, in order
SubscribedPrefix == \E n \in 0..Len(Topics) : subs = SubSeq(Topics, 1, n)

\* C27: on every connection, the first and each one after a transport error,
\* one subscribe call per configured topic pattern has been issued before any
\* message of that connection is consumed or yielded.
C27_SubscribedBeforeMessages ==
    /\ SubscribedPrefix
    /\ rpc \in {"receive", "yielded"} => subs = Topics

\* after a transport error the reader has reconnected, subscribed again and
\* yielded a message of the new connection
C27_Witness ==
    /\ errors >= 1
    /\ rpc = "yielded"
    /\ subs = Topics
    /\ Len(delivered) = 1

====
